---- MODULE Spec2Model ----
(***************************************************************************)
(* SocketSerial (pyftdi/serialext/protocol_unix.py): a serial port         *)
(* redirected to a Unix domain stream socket.                              *)
(*                                                                         *)
(* One caller thread runs the methods of one SocketSerial object, one      *)
(* statement group at a time; the peer of the connection sends bytes and   *)
(* closes its end at any moment in between.                                *)
(*                                                                         *)
(* Python values: None is the tuple <<"None">>; an attribute that was     *)
(* never assigned holds "unset" (reading it raises AttributeError); a      *)
(* string on which the code does string operations is a tuple of tokens;   *)
(* a byte string is a tuple of bytes; a number is a one-token tuple.       *)
(***************************************************************************)
EXTENDS Integers, Sequences, FiniteSets, TLC

\* ------------------------------------------------------------- bounds
MaxSockets == 2     \* socket objects created in one behaviour
MaxStream  == 2     \* bytes the peer sends on one connection
MaxData    == 2     \* length of the data given to one write()
MaxSize    == 2     \* largest size given to read()

\* byte strings: the k-th byte of a stream is named by the number k, so that
\* a lost, repeated or misplaced byte shows
Byte(k) == ToString(k)
Bytes(k) == [i \in 1..k |-> Byte(i)]

None == <<"None">>

\* ------------------------------------------------------- configuration
\* port strings, as token tuples ('://' and '~/' are the tokens the code
\* looks for)
PortPlain   == <<"unix", "://", "sock">>
PortHome    == <<"unix", "://", "~/", "sock">>
PortMissing == <<"unix", "://", "missing">>
PortNoSep   == <<"sock">>
Ports == {None, PortPlain, PortHome, PortMissing, PortNoSep}

Homes == {None, <<"/home/">>}

\* read and write timeouts: None (blocking), zero, or a positive duration
Timeouts == {None, <<"0">>, <<"5">>}

\* the configured pairs <<read timeout, write timeout>>
TimeoutPairs == {<<tm, tm>> : tm \in Timeouts}

\* tm >= 0 and tm > 0 as Python 2 evaluates them (None is below every number)
GE0(tm) == tm \in {<<"0">>, <<"5">>}
GT0(tm) == tm = <<"5">>

\* a socket path a server listens on
Exists(fname) ==
    Len(fname) > 0 /\ fname[Len(fname)] = "sock" /\ fname[1] # "~/"

Min(a, b) == IF a < b THEN a ELSE b

\* ---------------------------------------------------------- exceptions
Exc(c, w, e) == [cls |-> c, what |-> w, errno |-> e]
NoExc == Exc("none", "", "")
Ok    == Exc("ok", "", "")

\* serial.portNotOpenError: an instance of SerialException
portNotOpenError == Exc("SerialException", "port not open", "")
AttributeError   == Exc("AttributeError", "sock", "")

\* Python 2 exception classes and their base class
Base(c) ==
    CASE c = "SerialExceptionWithErrno" -> "SerialException"
      [] c = "SerialException"  -> "IOError"
      [] c = "socket.error"     -> "IOError"
      [] c = "IOError"          -> "EnvironmentError"
      [] c = "OSError"          -> "EnvironmentError"
      [] c = "EnvironmentError" -> "StandardError"
      [] c = "ValueError"       -> "StandardError"
      [] c = "NameError"        -> "StandardError"
      [] c = "AttributeError"   -> "StandardError"
      [] c = "TypeError"        -> "StandardError"
      [] c = "StandardError"    -> "Exception"
      [] OTHER                  -> "object"

RECURSIVE SubClass(_, _)
SubClass(c, k) ==
    IF c = k THEN TRUE
    ELSE IF c = "object" THEN FALSE
    ELSE SubClass(Base(c), k)

IsInstance(e, k) == SubClass(e.cls, k)

\* --------------------------------------------------------------- state
VARIABLES
    \* the SocketSerial object
    port,          \* self._port / self.portstr
    sock,          \* self.sock: "unset", "None" or "sock"
    fd,            \* which socket object self.sock refers to (0: none)
    isOpen,        \* self._isOpen
    dump,          \* self._dump: "unset", "on" or "off"
    lastdtr,       \* self._lastdtr: "unset" or "None"
    filename,      \* self._filename
    timeout,       \* self._timeout
    writeTimeout,  \* self._writeTimeout
    \* the operating system
    nsock,         \* socket objects created so far
    live,          \* socket objects whose descriptor is not released
    sstate,        \* the current socket: "none", "created", "connected",
                   \* "shutdown" or "closed"
    blocking,      \* the current socket blocks
    \* the connection
    peerStream,    \* every byte the peer sent on this connection
    rxbuf,         \* bytes received and not yet taken by recv
    peerClosed,    \* the peer closed its end
    wire,          \* bytes the current write() handed to the socket
    \* the caller
    pc,            \* where the caller is
    op,            \* the method running, or the last one that ended
    prev,          \* whether close() ended just before it, and how
    ret,           \* who called close(): "top" or "open"
    exc,           \* the exception in flight
    result,        \* how the last method ended
    retval,        \* what the last method returned
    size, rd, rdstart, nsel, nrecv,   \* read(): size, read, counters
    data, d, t, n, nsend,             \* write(): data, d, t, n, counter
    expired,       \* write(): the wait that ran out: "no", "pre" or "post"
    \* a second thread
    cpc            \* where a close() run by another thread is

objVars   == <<port, sock, fd, isOpen, dump, lastdtr, filename, timeout,
               writeTimeout>>
osVars    == <<nsock, live, sstate, blocking>>
connVars  == <<peerStream, rxbuf, peerClosed, wire>>
callVars  == <<pc, op, prev, ret, exc, result, retval>>
readVars  == <<size, rd, rdstart, nsel, nrecv>>
writeVars == <<data, d, t, n, nsend, expired>>
vars == <<objVars, osVars, connVars, callVars, readVars, writeVars, cpc>>

\* the object after SerialBase.__init__ with no port, and after the port and
\* the timeouts were configured: open() has not run, so self.sock,
\* self._dump and self._lastdtr were never assigned
Init ==
    /\ port \in Ports
    /\ \E tp \in TimeoutPairs : timeout = tp[1] /\ writeTimeout = tp[2]
    /\ sock = "unset" /\ fd = 0 /\ isOpen = FALSE
    /\ dump = "unset" /\ lastdtr = "unset" /\ filename = None
    /\ nsock = 0 /\ live = {} /\ sstate = "none" /\ blocking = TRUE
    /\ peerStream = <<>> /\ rxbuf = <<>> /\ peerClosed = FALSE
    /\ wire = <<>>
    /\ pc = "idle" /\ op = "none" /\ prev = <<"other", "">>
    /\ ret = "top" /\ exc = NoExc /\ result = NoExc /\ retval = None
    /\ size = 0 /\ rd = <<>> /\ rdstart = 0 /\ nsel = 0 /\ nrecv = 0
    /\ data = <<>> /\ d = <<>> /\ t = 0 /\ n = 0 /\ nsend = 0
    /\ expired = "no"
    /\ cpc = "idle"

\* ------------------------------------------------------- call and return
\* a method is called: the one before it becomes the previous one
Call(name) ==
    /\ pc = "idle"
    /\ op' = name
    /\ prev' = IF op = "close" THEN <<"close", result.cls>>
                ELSE <<"other", "">>

\* the locals of a read() or write() that ended are gone
ClearRead ==
    size' = 0 /\ rd' = <<>> /\ rdstart' = 0 /\ nsel' = 0 /\ nrecv' = 0

ClearWrite ==
    /\ data' = <<>> /\ d' = <<>> /\ t' = 0 /\ n' = 0 /\ nsend' = 0
    /\ expired' = "no"
    /\ wire' = <<>>

\* the method returns rv
Return(rv) ==
    /\ pc' = "idle" /\ result' = Ok /\ retval' = rv /\ exc' = NoExc

\* the method ends with exception e
Raise(e) ==
    /\ pc' = "idle" /\ result' = e /\ retval' = None /\ exc' = NoExc

\* ---------------------------------------------------------------- open
\* OpenRejection without the test of _isOpen (line 65)
OpenRejectionNoOpenTest ==
    IF port = None THEN Exc("SerialException", "not configured", "")
    ELSE NoExc

\* lines 63-66: the two checks made before anything else
OpenRejection ==
    IF port = None THEN Exc("SerialException", "not configured", "")
    ELSE IF isOpen THEN Exc("SerialException", "already open", "")
    ELSE NoExc

\* line 67
DumpAtOpen == "off"

\* open(), lines 63-68
OpenCall ==
    /\ Call("open")
    /\ IF OpenRejection # NoExc
       THEN /\ Raise(OpenRejection)
            /\ UNCHANGED <<ret, objVars, osVars>>
       ELSE /\ nsock < MaxSockets
            /\ dump' = DumpAtOpen
            /\ sock' = "None" /\ fd' = 0
            /\ live' = live \ {fd}
            /\ sstate' = "none"
            /\ pc' = "open_socket"
            /\ UNCHANGED <<ret, exc, result, retval>>
            /\ UNCHANGED <<port, isOpen, lastdtr, filename, timeout,
                           writeTimeout>>
            /\ UNCHANGED <<nsock, blocking>>
    /\ ClearRead /\ ClearWrite
    /\ UNCHANGED <<peerStream, rxbuf, peerClosed>>
    /\ UNCHANGED cpc

\* line 70: socket.socket() gives a new socket object, or fails
OpenSocket ==
    /\ pc = "open_socket"
    /\ \/ /\ nsock' = nsock + 1
          /\ sock' = "sock" /\ fd' = nsock + 1
          /\ live' = live \cup {nsock + 1}
          /\ sstate' = "created" /\ blocking' = TRUE
          /\ pc' = "open_resolve"
          /\ UNCHANGED exc
       \/ /\ exc' = Exc("socket.error", "socket", "EMFILE")
          /\ pc' = "open_except"
          /\ UNCHANGED <<sock, fd, osVars>>
    /\ UNCHANGED <<port, isOpen, dump, lastdtr, filename, timeout,
                   writeTimeout>>
    /\ UNCHANGED <<op, prev, ret, result, retval>>
    /\ UNCHANGED <<connVars, readVars, writeVars>>
    /\ UNCHANGED cpc

\* str.index: the position of the first token tok in s, 0 if there is none
Index(s, tok) ==
    IF \E i \in 1..Len(s) : s[i] = tok
    THEN CHOOSE i \in 1..Len(s) :
            s[i] = tok /\ \A j \in 1..(i - 1) : s[j] # tok
    ELSE 0

\* lines 71-75: the path after '://', a leading '~/' replaced by $HOME/ when
\* HOME is set
Filename(portstr, home) ==
    LET rest == SubSeq(portstr, Index(portstr, "://") + 1, Len(portstr))
    IN  IF rest # <<>> /\ rest[1] = "~/" /\ home # None
        THEN home \o SubSeq(rest, 2, Len(rest))
        ELSE rest

\* lines 71-76: index() raises ValueError when the port has no '://'
OpenResolve ==
    /\ pc = "open_resolve"
    /\ IF Index(port, "://") = 0
       THEN /\ exc' = Exc("ValueError", "substring not found", "")
            /\ pc' = "open_except"
            /\ UNCHANGED filename
       ELSE /\ \E home \in Homes : filename' = Filename(port, home)
            /\ pc' = "open_connect"
            /\ UNCHANGED exc
    /\ UNCHANGED <<port, sock, fd, isOpen, dump, lastdtr, timeout,
                   writeTimeout>>
    /\ UNCHANGED <<op, prev, ret, result, retval>>
    /\ UNCHANGED <<osVars, connVars, readVars, writeVars>>
    /\ UNCHANGED cpc

\* line 77: connect succeeds when a server listens on the path and accepts
OpenConnect ==
    /\ pc = "open_connect"
    /\ \/ /\ Exists(filename)
          /\ sstate' = "connected"
          /\ pc' = "open_done"
          /\ UNCHANGED exc
       \/ /\ Exists(filename)
          /\ exc' = Exc("socket.error", "connect", "ECONNREFUSED")
          /\ pc' = "open_except"
          /\ UNCHANGED sstate
       \/ /\ ~Exists(filename)
          /\ exc' = Exc("socket.error", "connect", "ENOENT")
          /\ pc' = "open_except"
          /\ UNCHANGED sstate
    /\ IF sstate' = "connected"
       THEN peerStream' = <<>> /\ rxbuf' = <<>> /\ peerClosed' = FALSE
       ELSE UNCHANGED <<peerStream, rxbuf, peerClosed>>
    /\ UNCHANGED <<nsock, live, blocking, wire>>
    /\ UNCHANGED <<op, prev, ret, result, retval>>
    /\ UNCHANGED <<objVars, readVars, writeVars>>
    /\ UNCHANGED cpc

\* lines 78-79: the handler calls self.close()
OpenExcept ==
    /\ pc = "open_except"
    /\ pc' = "close_test"
    /\ ret' = "open"
    /\ UNCHANGED <<op, prev, exc, result, retval>>
    /\ UNCHANGED <<objVars, osVars, connVars, readVars, writeVars>>
    /\ UNCHANGED cpc

\* ErrnoOf losing the code (the default errno=None of line 41)
ErrnoDropped(e) == "None"

\* line 82: the errno given to SerialExceptionWithErrno
ErrnoOf(e) == e.errno

\* lines 80-84: the exception open() raises for the failure e
OpenError(e) ==
    IF IsInstance(e, "socket.error")
    THEN Exc("SerialExceptionWithErrno", "could not open port", ErrnoOf(e))
    ELSE Exc("SerialException", "could not open port", "")

\* lines 80-84, after close() returned
OpenRaise ==
    /\ pc = "open_raise"
    /\ Raise(OpenError(exc))
    /\ UNCHANGED <<op, prev, ret>>
    /\ UNCHANGED <<objVars, osVars, connVars, readVars, writeVars>>
    /\ UNCHANGED cpc

\* line 85
IsOpenAtOpen == TRUE

\* lines 85-86
OpenDone ==
    /\ pc = "open_done"
    /\ isOpen' = IsOpenAtOpen
    /\ lastdtr' = "None"
    /\ Return(None)
    /\ UNCHANGED <<port, sock, fd, dump, filename, timeout, writeTimeout>>
    /\ UNCHANGED <<op, prev, ret>>
    /\ UNCHANGED <<osVars, connVars, readVars, writeVars>>
    /\ UNCHANGED cpc

\* --------------------------------------------------------------- close
\* close(), line 89: reading self.sock raises AttributeError when open()
\* never assigned it
CloseCall ==
    /\ Call("close")
    /\ IF sock = "unset"
       THEN Raise(AttributeError) /\ UNCHANGED ret
       ELSE pc' = "close_test" /\ ret' = "top"
            /\ UNCHANGED <<exc, result, retval>>
    /\ ClearRead /\ ClearWrite
    /\ UNCHANGED <<peerStream, rxbuf, peerClosed>>
    /\ UNCHANGED <<objVars, osVars>>
    /\ UNCHANGED cpc

\* line 89, with self.sock assigned
CloseTest ==
    /\ pc = "close_test"
    /\ pc' = IF sock = "sock" THEN "close_shutdown" ELSE "close_flag"
    /\ UNCHANGED <<op, prev, ret, exc, result, retval>>
    /\ UNCHANGED <<objVars, osVars, connVars, readVars, writeVars>>
    /\ UNCHANGED cpc

\* lines 90-93: shutdown fails on a socket that is not connected; the
\* failure is swallowed
CloseShutdown ==
    /\ pc = "close_shutdown"
    /\ sstate' = IF sstate = "connected" THEN "shutdown" ELSE sstate
    /\ pc' = "close_release"
    /\ UNCHANGED <<nsock, live, blocking>>
    /\ UNCHANGED <<op, prev, ret, exc, result, retval>>
    /\ UNCHANGED <<objVars, connVars, readVars, writeVars>>
    /\ UNCHANGED cpc

\* lines 94-97: the socket is released, or the release fails and the
\* failure is swallowed
CloseRelease ==
    /\ pc = "close_release"
    /\ \/ sstate' = "closed" /\ live' = live \ {fd}
       \/ UNCHANGED <<sstate, live>>
    /\ pc' = "close_clear"
    /\ UNCHANGED <<nsock, blocking>>
    /\ UNCHANGED <<op, prev, ret, exc, result, retval>>
    /\ UNCHANGED <<objVars, connVars, readVars, writeVars>>
    /\ UNCHANGED cpc

\* SockAfterClear with the assignment of line 98 missing
SockKept == sock

\* line 98
SockAfterClear == "None"

\* line 98: the last reference to the socket object goes, and with it the
\* descriptor and the connection
CloseClear ==
    /\ pc = "close_clear"
    /\ sock' = SockAfterClear
    /\ fd' = IF SockAfterClear = "None" THEN 0 ELSE fd
    /\ IF SockAfterClear = "None"
       THEN /\ live' = live \ {fd}
            /\ sstate' = "none" /\ blocking' = TRUE
            /\ peerStream' = <<>> /\ rxbuf' = <<>> /\ peerClosed' = FALSE
            /\ wire' = <<>>
       ELSE UNCHANGED <<live, sstate, blocking, connVars>>
    /\ pc' = "close_flag"
    /\ UNCHANGED nsock
    /\ UNCHANGED <<port, isOpen, dump, lastdtr, filename, timeout,
                   writeTimeout>>
    /\ UNCHANGED <<op, prev, ret, exc, result, retval>>
    /\ UNCHANGED <<readVars, writeVars>>
    /\ UNCHANGED cpc

\* IsOpenAfterClose with the assignment of line 99 missing
IsOpenKept == isOpen

\* line 99
IsOpenAfterClose == FALSE

\* line 99, and the return to the caller of close()
CloseFlag ==
    /\ pc = "close_flag"
    /\ isOpen' = IsOpenAfterClose
    /\ IF ret = "open"
       THEN /\ pc' = "open_raise" /\ ret' = "top"
            /\ UNCHANGED <<exc, result, retval>>
       ELSE Return(None) /\ UNCHANGED ret
    /\ UNCHANGED <<port, sock, fd, dump, lastdtr, filename, timeout,
                   writeTimeout>>
    /\ UNCHANGED <<op, prev>>
    /\ UNCHANGED <<osVars, connVars, readVars, writeVars>>
    /\ UNCHANGED cpc

\* ---------------------------------------------------------------- read
\* select reports the socket readable: bytes wait, or the stream ended
\* because the peer closed or the socket was shut down
Readable == rxbuf # <<>> \/ peerClosed \/ sstate = "shutdown"

\* self.sock no longer gives a usable socket: another thread's close()
\* released it (line 94) or cleared the attribute (line 98)
SockGone == sock # "sock" \/ sstate = "closed"

\* lines 114, 117 on such a socket: None has no fileno() and no recv; every
\* method of a released Python 2 socket object raises EBADF
selectOnGone == IF sock = "sock" THEN Exc("socket.error", "fileno", "EBADF")
                ELSE Exc("TypeError", "select", "")
recvOnGone   == IF sock = "sock" THEN Exc("socket.error", "recv", "EBADF")
                ELSE Exc("AttributeError", "recv", "")

\* how the select of line 114 may end. On a socket that is gone: called
\* after the release it raises; called before, it was woken by the
\* shutdown or ran out of time
SelectOutcomes ==
    IF SockGone
    THEN {"error", "ready"}
         \cup (IF timeout # None THEN {"expired"} ELSE {})
    ELSE IF Readable THEN {"ready"}
    ELSE IF timeout # None THEN {"expired"} ELSE {}

\* read(size), lines 109-113
ReadCall ==
    /\ Call("read")
    /\ \E sz \in (0 - 1)..MaxSize :
          IF sock = "unset" THEN Raise(AttributeError) /\ size' = 0
          ELSE IF sock = "None" THEN Raise(portNotOpenError) /\ size' = 0
          ELSE /\ size' = sz
               /\ IF sz > 0
                  THEN pc' = "read_select"
                       /\ UNCHANGED <<exc, result, retval>>
                  ELSE Return(<<>>)
    /\ rd' = <<>> /\ nsel' = 0 /\ nrecv' = 0
    /\ rdstart' = Len(peerStream) - Len(rxbuf)
    /\ ClearWrite
    /\ UNCHANGED <<peerStream, rxbuf, peerClosed>>
    /\ UNCHANGED <<ret, objVars, osVars>>
    /\ UNCHANGED cpc

\* BreakOnTimeout with the test of line 115 missing
NoBreakOnTimeout(ready) == FALSE

\* lines 115-116: nothing ready ends the loop
BreakOnTimeout(ready) == ~ready

\* lines 114-116: with no timeout select waits until the socket is readable;
\* with one it ends when the socket is readable or the time is over
ReadSelect ==
    /\ pc = "read_select"
    /\ nsel' = nsel + 1
    /\ \E o \in SelectOutcomes :
          IF o = "error" THEN Raise(selectOnGone)
          ELSE IF BreakOnTimeout(o = "ready")
          THEN Return(rd)
          ELSE pc' = "read_recv" /\ UNCHANGED <<exc, result, retval>>
    /\ UNCHANGED <<size, rd, rdstart, nrecv>>
    /\ UNCHANGED <<op, prev, ret>>
    /\ UNCHANGED <<objVars, osVars, connVars, writeVars>>
    /\ UNCHANGED cpc

\* line 117: the number of bytes asked of recv
RecvMax(sz, r) == sz - Len(r)

\* EofSeen with the test of line 118 missing
EofIgnored(b) == FALSE

\* line 118: an empty buffer marks a disconnected peer
EofSeen(b) == Len(b) = 0

\* Accumulate with the operands of line 122 exchanged
AccumulateFront(r, b) == b \o r

\* line 122
Accumulate(r, b) == r \o b

\* what recv(m) may return: at least one and at most m of the bytes that
\* wait, or nothing at the end of the stream
RecvLens(m) ==
    IF rxbuf = <<>> THEN {0} ELSE 1..Min(m, Len(rxbuf))

\* lines 117-124, and the loop test of line 113
ReadRecv ==
    /\ pc = "read_recv"
    /\ IF SockGone
       THEN Raise(recvOnGone) /\ UNCHANGED <<rxbuf, rd>>
       ELSE
       /\ Readable
       /\ \E k \in RecvLens(RecvMax(size, rd)) :
             LET b == SubSeq(rxbuf, 1, k) IN
             /\ rxbuf' = SubSeq(rxbuf, k + 1, Len(rxbuf))
             /\ IF EofSeen(b)
                THEN Raise(portNotOpenError) /\ UNCHANGED rd
                ELSE /\ rd' = Accumulate(rd, b)
                     /\ IF (GE0(timeout) /\ Len(b) = 0)
                           \/ ~(Len(Accumulate(rd, b)) < size)
                        THEN Return(Accumulate(rd, b))
                        ELSE pc' = "read_select"
                             /\ UNCHANGED <<exc, result, retval>>
    /\ nrecv' = nrecv + 1
    /\ UNCHANGED <<size, rdstart, nsel>>
    /\ UNCHANGED <<peerStream, peerClosed, wire>>
    /\ UNCHANGED <<op, prev, ret>>
    /\ UNCHANGED <<objVars, osVars, writeVars>>
    /\ UNCHANGED cpc

\* --------------------------------------------------------------- write
\* line 139 / 147: the module imports names from serial but never binds the
\* name serial itself (lines 26-33), so evaluating serial.writeTimeoutError
\* raises NameError
writeTimeoutError == Exc("NameError", "serial", "")

\* lines 135, 143
WaitsWritable == writeTimeout # None /\ GT0(writeTimeout)

\* write(data), lines 129-133
WriteCall ==
    /\ Call("write")
    /\ \E dt \in {Bytes(k) : k \in 0..MaxData} :
          IF sock = "unset"
          THEN Raise(AttributeError) /\ data' = <<>> /\ d' = <<>> /\ t' = 0
          ELSE IF sock = "None"
          THEN Raise(portNotOpenError) /\ data' = <<>> /\ d' = <<>>
               /\ t' = 0
          ELSE /\ data' = dt /\ t' = Len(dt) /\ d' = dt
               /\ IF Len(dt) > 0
                  THEN pc' = "write_pre"
                       /\ UNCHANGED <<exc, result, retval>>
                  ELSE Return(None)
    /\ n' = 0 /\ nsend' = 0 /\ expired' = "no"
    /\ wire' = <<>>
    /\ ClearRead
    /\ UNCHANGED <<peerStream, rxbuf, peerClosed>>
    /\ UNCHANGED <<ret, objVars, osVars>>
    /\ UNCHANGED cpc

\* lines 135-139: the wait for writability before the send
WritePre ==
    /\ pc = "write_pre"
    /\ IF WaitsWritable
       THEN \E ready \in BOOLEAN :
               IF ready
               THEN pc' = "write_send" /\ UNCHANGED <<exc, expired>>
               ELSE pc' = "write_except" /\ exc' = writeTimeoutError
                    /\ expired' = "pre"
       ELSE pc' = "write_send" /\ UNCHANGED <<exc, expired>>
    /\ UNCHANGED <<data, d, t, n, nsend>>
    /\ UNCHANGED <<op, prev, ret, result, retval>>
    /\ UNCHANGED <<objVars, osVars, connVars, readVars>>
    /\ UNCHANGED cpc

\* lines 140-142: send takes between one and all of the bytes of d, or
\* fails: with EAGAIN on a socket set non-blocking, with EPIPE once the peer
\* has closed (socket.error both). The hexdump of lines 141-142 goes to
\* stdout and changes nothing of the object.
WriteSend ==
    /\ pc = "write_send"
    /\ \/ /\ ~peerClosed
          /\ \E k \in 1..Len(d) :
                /\ n' = k
                /\ wire' = wire \o SubSeq(d, 1, k)
          /\ nsend' = nsend + 1
          /\ pc' = "write_post"
          /\ UNCHANGED exc
       \/ /\ ~blocking /\ ~peerClosed
          /\ exc' = Exc("socket.error", "send", "EAGAIN")
          /\ pc' = "write_except"
          /\ UNCHANGED <<n, wire, nsend>>
       \/ /\ peerClosed
          /\ exc' = Exc("socket.error", "send", "EPIPE")
          /\ pc' = "write_except"
          /\ UNCHANGED <<n, wire, nsend>>
    /\ UNCHANGED <<data, d, t, expired>>
    /\ UNCHANGED <<peerStream, rxbuf, peerClosed>>
    /\ UNCHANGED <<op, prev, ret, result, retval>>
    /\ UNCHANGED <<objVars, osVars, readVars>>
    /\ UNCHANGED cpc

\* Rest with d left as it was (line 148 missing)
RestNotAdvanced(dd, k) == dd

\* line 148
Rest(dd, k) == SubSeq(dd, k + 1, Len(dd))

\* Remaining taking every send for a complete one
RemainingNone(tt, k) == 0

\* Remaining with t left as it was (line 149 missing)
RemainingSame(tt, k) == tt

\* line 149
Remaining(tt, k) == tt - k

\* lines 143-149, and the loop test of line 133
WritePost ==
    /\ pc = "write_post"
    /\ \E ready \in BOOLEAN :
          IF WaitsWritable /\ ~ready
          THEN /\ pc' = "write_except" /\ exc' = writeTimeoutError
               /\ expired' = "post"
               /\ UNCHANGED <<d, t, result, retval>>
          ELSE /\ d' = Rest(d, n)
               /\ t' = Remaining(t, n)
               /\ IF Remaining(t, n) > 0
                  THEN pc' = "write_pre" /\ UNCHANGED <<exc, result, retval>>
                  ELSE Return(None)
               /\ UNCHANGED expired
    /\ UNCHANGED <<data, n, nsend>>
    /\ UNCHANGED <<op, prev, ret>>
    /\ UNCHANGED <<objVars, osVars, connVars, readVars>>
    /\ UNCHANGED cpc

\* lines 150-152: the handler takes instances of OSError alone; EAGAIN is
\* swallowed and the loop goes on, anything else is raised again
WriteExcept ==
    /\ pc = "write_except"
    /\ IF IsInstance(exc, "OSError") /\ exc.errno = "EAGAIN"
       THEN /\ IF t > 0
               THEN pc' = "write_pre" /\ UNCHANGED <<result, retval>>
                    /\ exc' = NoExc
               ELSE Return(None)
       ELSE Raise(exc)
    /\ UNCHANGED <<op, prev, ret>>
    /\ UNCHANGED <<objVars, osVars, connVars, readVars, writeVars>>
    /\ UNCHANGED cpc

\* --------------------------------------------------------------- stubs
NoOps   == {"flush", "flushInput", "flushOutput", "sendBreak", "setRTS",
            "setDTR"}
Getters == {"getCTS", "getDSR", "getRI", "getCD", "inWaiting"}

\* lines 101-103, 154-194
StubReturn(name) ==
    CASE name \in {"getCTS", "getDSR"} -> <<"True">>
      [] name \in {"getRI", "getCD"}   -> <<"False">>
      [] name = "inWaiting"            -> <<"0">>
      [] OTHER                         -> None

Stub ==
    \E name \in NoOps \cup Getters :
       /\ Call(name)
       /\ Return(StubReturn(name))
       /\ ClearRead /\ ClearWrite
       /\ UNCHANGED <<peerStream, rxbuf, peerClosed>>
       /\ UNCHANGED <<ret, objVars, osVars>>
       /\ UNCHANGED cpc

\* nonblocking(), lines 200-202
Nonblocking ==
    /\ Call("nonblocking")
    /\ IF sock = "unset" THEN Raise(AttributeError) /\ UNCHANGED blocking
       ELSE IF sock = "None"
       THEN Raise(portNotOpenError) /\ UNCHANGED blocking
       ELSE Return(None) /\ blocking' = FALSE
    /\ ClearRead /\ ClearWrite
    /\ UNCHANGED <<nsock, live, sstate>>
    /\ UNCHANGED <<peerStream, rxbuf, peerClosed>>
    /\ UNCHANGED <<ret, objVars>>
    /\ UNCHANGED cpc

\* dump(enable), lines 204-205
Dump ==
    /\ Call("dump")
    /\ \E enable \in {"on", "off"} : dump' = enable
    /\ Return(None)
    /\ ClearRead /\ ClearWrite
    /\ UNCHANGED <<port, sock, fd, isOpen, lastdtr, filename, timeout,
                   writeTimeout>>
    /\ UNCHANGED <<peerStream, rxbuf, peerClosed>>
    /\ UNCHANGED <<ret, osVars>>
    /\ UNCHANGED cpc

\* ---------------------------------------------------------------- peer
PeerSend ==
    /\ sstate = "connected" /\ ~peerClosed
    /\ Len(peerStream) < MaxStream
    /\ peerStream' = Bytes(Len(peerStream) + 1)
    /\ rxbuf' = Append(rxbuf, Byte(Len(peerStream) + 1))
    /\ UNCHANGED <<peerClosed, wire>>
    /\ UNCHANGED <<objVars, osVars, callVars, readVars, writeVars>>
    /\ UNCHANGED cpc

PeerClose ==
    /\ sstate = "connected" /\ ~peerClosed
    /\ peerClosed' = TRUE
    /\ UNCHANGED <<peerStream, rxbuf, wire>>
    /\ UNCHANGED <<objVars, osVars, callVars, readVars, writeVars>>
    /\ UNCHANGED cpc

\* ------------------------------------------- close() by a second thread
\* The object has no lock: while the caller is inside read() another thread
\* may run close() (lines 88-99), its statements interleaved with read's.

\* the caller's read() is between two of its statements
ReadPcs == {"read_select", "read_recv"}

\* lines 88-89 in the second thread
ConcCloseCall ==
    /\ cpc = "idle" /\ pc \in ReadPcs
    /\ cpc' = IF sock = "sock" THEN "shutdown" ELSE "flag"
    /\ UNCHANGED <<objVars, osVars, connVars, callVars, readVars, writeVars>>

\* lines 90-93 in the second thread
ConcCloseShutdown ==
    /\ cpc = "shutdown"
    /\ sstate' = IF sstate = "connected" THEN "shutdown" ELSE sstate
    /\ cpc' = "release"
    /\ UNCHANGED <<nsock, live, blocking>>
    /\ UNCHANGED <<objVars, connVars, callVars, readVars, writeVars>>

\* lines 94-97 in the second thread
ConcCloseRelease ==
    /\ cpc = "release"
    /\ \/ sstate' = "closed" /\ live' = live \ {fd}
       \/ UNCHANGED <<sstate, live>>
    /\ cpc' = "clear"
    /\ UNCHANGED <<nsock, blocking>>
    /\ UNCHANGED <<objVars, connVars, callVars, readVars, writeVars>>

\* line 98 in the second thread; what the peer sent stays on record for the
\* read() still running
ConcCloseClear ==
    /\ cpc = "clear"
    /\ sock' = SockAfterClear
    /\ fd' = IF SockAfterClear = "None" THEN 0 ELSE fd
    /\ IF SockAfterClear = "None"
       THEN /\ live' = live \ {fd}
            /\ sstate' = "none" /\ blocking' = TRUE
            /\ rxbuf' = <<>> /\ peerClosed' = FALSE
       ELSE UNCHANGED <<live, sstate, blocking, rxbuf, peerClosed>>
    /\ cpc' = "flag"
    /\ UNCHANGED <<nsock, peerStream, wire>>
    /\ UNCHANGED <<port, isOpen, dump, lastdtr, filename, timeout,
                   writeTimeout>>
    /\ UNCHANGED <<callVars, readVars, writeVars>>

\* line 99 in the second thread, and its close() returns
ConcCloseFlag ==
    /\ cpc = "flag"
    /\ isOpen' = IsOpenAfterClose
    /\ cpc' = "idle"
    /\ UNCHANGED <<port, sock, fd, dump, lastdtr, filename, timeout,
                   writeTimeout>>
    /\ UNCHANGED <<osVars, connVars, callVars, readVars, writeVars>>

\* the caller starts a method only when the second thread's close() is over
ConcOpenCall == cpc = "idle" /\ OpenCall
ConcReadCall == cpc = "idle" /\ ReadCall

Next ==
    \/ OpenCall \/ OpenSocket \/ OpenResolve \/ OpenConnect
    \/ OpenExcept \/ OpenRaise \/ OpenDone
    \/ CloseCall \/ CloseTest \/ CloseShutdown \/ CloseRelease
    \/ CloseClear \/ CloseFlag
    \/ ReadCall \/ ReadSelect \/ ReadRecv
    \/ WriteCall \/ WritePre \/ WriteSend \/ WritePost \/ WriteExcept
    \/ Stub \/ Nonblocking \/ Dump
    \/ PeerSend \/ PeerClose

Spec == Init /\ [][Next]_vars

\* =====================================================================
\* Properties
\* =====================================================================
Idle == pc = "idle"

\* a step of the caller (the peer's steps leave callVars alone)
CallerStep == callVars' # callVars

InvalidState(r) ==
    r.cls = "SerialException" /\ r.what \in {"not configured", "already open"}

Max(a, b) == IF a > b THEN a ELSE b

\* C1: whenever no method is running, after any calls that returned or
\* raised, self.sock holds a socket if and only if _isOpen is true (an
\* attribute never assigned holds no socket).
C1_HandleIffOpen == Idle => ((sock = "sock") <=> isOpen)

\* a read() that failed on a closed peer left the transport open, handle set
C1_Witness ==
    Idle /\ op = "read" /\ result = portNotOpenError /\ isOpen
         /\ sock = "sock"

\* C2: _isOpen becomes true only in the last step of an open() that returns,
\* and false only in close() called by the user; an open() that raises
\* leaves _isOpen as it was when it was called (false, for every open() that
\* got past its two checks); a close() that returns leaves it false; no
\* step of read, write, nonblocking, dump or a stub changes it; and every
\* socket open() stores in self.sock is a new socket object.
C2_Transitions ==
    [][ /\ (~isOpen /\ isOpen') =>
              (op = "open" /\ pc = "open_done" /\ pc' = "idle" /\ result' = Ok)
        /\ (isOpen /\ ~isOpen') => (op = "close" /\ ret = "top")
        /\ (op' = "open" /\ pc' = "idle" /\ CallerStep /\ result' # Ok) =>
              (isOpen' = isOpen /\ (pc # "idle" => ~isOpen'))
        /\ (op = "close" /\ pc = "close_flag" /\ ret = "top") =>
              (pc' = "idle" /\ result' = Ok /\ ~isOpen')
        /\ op' \notin {"open", "close"} => isOpen' = isOpen
        /\ (sock' = "sock" /\ sock # "sock") =>
              (op = "open" /\ fd' = nsock + 1 /\ nsock' = nsock + 1
               /\ fd' \notin live)
      ]_vars

\* open() succeeded again after a close(), on a second socket object
C2_Witness ==
    Idle /\ op = "open" /\ result = Ok /\ isOpen /\ sock = "sock" /\ fd > 1

\* C3: when open() raises after its handler ran (socket creation, path
\* resolution or connect failed), self.sock is None, _isOpen is false, no
\* socket object is left unreleased, and the exception is a
\* SerialException "could not open port" which, when the failure was a
\* socket.error, is a SerialExceptionWithErrno with that error's errno.
C3_OpenFailureCleansUp ==
    [][ (pc = "open_raise" /\ pc' = "idle") =>
          /\ sock' = "None" /\ fd' = 0 /\ ~isOpen'
          /\ live' = {} /\ sstate' = "none"
          /\ IsInstance(result', "SerialException")
          /\ result'.what = "could not open port"
          /\ IsInstance(exc, "socket.error") =>
                (result'.cls = "SerialExceptionWithErrno"
                 /\ result'.errno = exc.errno)
      ]_vars

\* open() on a missing path raised with ENOENT, after a socket was created
C3_Witness ==
    Idle /\ op = "open" /\ result.cls = "SerialExceptionWithErrno"
         /\ result.errno = "ENOENT" /\ nsock > 0 /\ sock = "None"
         /\ ~isOpen /\ live = {}

\* C4: open() called with the port not configured or with _isOpen true
\* raises SerialException at once, and leaves self.sock, _isOpen, _dump,
\* the sockets and the connection as they were.
C4_OpenRejectedUntouched ==
    [][ (pc = "idle" /\ op' = "open" /\ CallerStep
         /\ (port = None \/ isOpen)) =>
          /\ pc' = "idle" /\ InvalidState(result')
          /\ UNCHANGED <<sock, fd, isOpen, dump>>
          /\ UNCHANGED <<nsock, live, sstate, blocking>>
          /\ UNCHANGED <<peerStream, rxbuf, peerClosed>>
      ]_vars

\* open() was rejected on an open, connected transport with the dump on
C4_Witness ==
    Idle /\ op = "open" /\ result.what = "already open" /\ isOpen
         /\ sock = "sock" /\ sstate = "connected" /\ dump = "on"

\* C5 (as claimed): of two close() calls in succession neither raises, and
\* the transport is closed with no handle after the second.
C5_CloseTwiceNeverRaises ==
    (Idle /\ op = "close" /\ prev[1] = "close") =>
        (prev[2] = "ok" /\ result = Ok /\ sock # "sock" /\ ~isOpen)

\* C6 (as claimed): a close() that has ended has not raised, whatever
\* happened before it.
C6_CloseNeverThrows == (Idle /\ op = "close") => result = Ok

\* C7 (as claimed): on a transport that was never opened, read, write and
\* each status getter raise portNotOpenError or an invalid-state error, and
\* do nothing on a socket.
C7_NeverOpenedRaises ==
    (Idle /\ lastdtr = "unset" /\ op \in {"read", "write"} \cup Getters) =>
        /\ (result = portNotOpenError \/ InvalidState(result))
        /\ nsel = 0 /\ nrecv = 0 /\ nsend = 0

\* C8: a read(size) that returns gives at most size bytes (none when size
\* is not positive), and they are the bytes of the peer's stream that follow
\* those taken before the call, in order; and a select that ends with
\* nothing ready makes read return what it has accumulated.
C8_ReadReturnsNextBytes ==
    /\ [](( Idle /\ op = "read" /\ result = Ok) =>
             /\ Len(retval) <= Max(size, 0)
             /\ retval = SubSeq(peerStream, rdstart + 1,
                                rdstart + Len(retval)))
    /\ [][ (pc = "read_select" /\ CallerStep /\ ~Readable) =>
              (pc' = "idle" /\ result' = Ok /\ retval' = rd) ]_vars

\* read(2) returned one byte: one recv, then a select that expired
C8_Witness ==
    Idle /\ op = "read" /\ result = Ok /\ size = 2 /\ Len(retval) = 1
         /\ nsel = 2 /\ nrecv = 1

\* C9: in read, a recv that returns nothing (the socket was reported
\* readable, no byte waits: the peer has closed) makes read raise
\* portNotOpenError, on the first receive and on a later one.
C9_EofRaises ==
    [][ (pc = "read_recv" /\ CallerStep /\ rxbuf = <<>>) =>
          (pc' = "idle" /\ result' = portNotOpenError) ]_vars

\* read raised on the end of the stream with a byte already accumulated
C9_Witness ==
    Idle /\ op = "read" /\ result = portNotOpenError /\ Len(rd) > 0
         /\ nrecv = 2

\* C10: with a zero timeout, a read(size), size > 0, whose first select finds
\* nothing readable (no byte waits and the peer has not closed) returns the
\* empty string after that one select and no recv.
C10_ZeroTimeoutEmptyRead ==
    [][ (pc = "read_select" /\ CallerStep /\ nsel = 0 /\ timeout = <<"0">>
         /\ rxbuf = <<>> /\ ~peerClosed) =>
          (pc' = "idle" /\ result' = Ok /\ retval' = <<>>
           /\ nsel' = 1 /\ nrecv' = 0 /\ isOpen' /\ size > 0)
      ]_vars

\* such a read returned
C10_Witness ==
    Idle /\ op = "read" /\ result = Ok /\ retval = <<>> /\ size > 0
         /\ timeout = <<"0">> /\ nsel = 1 /\ nrecv = 0 /\ isOpen
         /\ rxbuf = <<>> /\ ~peerClosed

\* C11: a write(data) that returns has handed the socket, send after send,
\* exactly the bytes of data in order, whatever part each send took.
C11_WriteHandsAllBytes ==
    (Idle /\ op = "write" /\ result = Ok) => wire = data

\* a write of two bytes returned after two sends of one byte
C11_Witness ==
    Idle /\ op = "write" /\ result = Ok /\ nsend = 2 /\ Len(data) = 2
         /\ wire = data

\* serial.writeTimeoutError is a SerialTimeoutException
WriteTimeoutKind(r) == r.cls = "SerialTimeoutException"

\* C12 (as claimed): a write ended by the expiry of the wait that precedes a
\* send ends with the write-timeout exception, and with nothing sent when
\* no send was made.
C12_PreWaitExpiryIsWriteTimeout ==
    (Idle /\ op = "write" /\ expired = "pre") =>
        (WriteTimeoutKind(result) /\ (nsend = 0 => wire = <<>>))

\* C13 (as claimed): write never ends with the EAGAIN failure of a send.
C13_TryAgainNotSurfaced ==
    (Idle /\ op = "write") => result.errno # "EAGAIN"

\* C14 (as claimed): the no-op stubs and the getters return their constants
\* and leave the object, the sockets and the connection as they were, in
\* every state; nonblocking() returns when the transport is open and
\* raises portNotOpenError otherwise, leaving the object as it was.
C14_StubsChangeNothing ==
    [][ /\ (pc = "idle" /\ CallerStep /\ op' \in NoOps \cup Getters) =>
              /\ pc' = "idle" /\ result' = Ok
              /\ retval' = StubReturn(op')
              /\ UNCHANGED <<objVars, osVars>>
              /\ UNCHANGED <<peerStream, rxbuf, peerClosed>>
        /\ (pc = "idle" /\ CallerStep /\ op' = "nonblocking") =>
              /\ pc' = "idle"
              /\ result' = IF isOpen THEN Ok ELSE portNotOpenError
              /\ UNCHANGED objVars
              /\ UNCHANGED <<nsock, live, sstate>>
              /\ UNCHANGED <<peerStream, rxbuf, peerClosed>>
      ]_vars

ConcNext ==
    \/ ConcOpenCall \/ OpenSocket \/ OpenResolve \/ OpenConnect
    \/ OpenExcept \/ OpenRaise \/ OpenDone
    \/ CloseTest \/ CloseShutdown \/ CloseRelease \/ CloseClear
    \/ CloseFlag
    \/ ConcReadCall \/ ReadSelect \/ ReadRecv
    \/ ConcCloseCall \/ ConcCloseShutdown \/ ConcCloseRelease
    \/ ConcCloseClear \/ ConcCloseFlag
    \/ PeerSend \/ PeerClose

ConcSpec == Init /\ [][ConcNext]_vars

\* r is the run of bytes of stream st that follows its first from bytes
IsNextBytes(r, st, from) ==
    /\ from + Len(r) <= Len(st)
    /\ \A i \in 1..Len(r) : r[i] = st[from + i]

\* C16: with a second thread's close() interleaved at any point of a read()
\* in progress, the bytes read() has gathered are always the next bytes the
\* peer sent, in order; a read() that returns gives such bytes, at most size
\* of them, and otherwise it raises; read() never reassigns the handle or
\* the flag; and when the close() returns the handle is None, the flag is
\* false and no descriptor is left.
C16_CloseWhileRead ==
    /\ [](pc \in ReadPcs => IsNextBytes(rd, peerStream, rdstart))
    /\ [][/\ (op = "read" /\ pc \in ReadPcs /\ pc' = "idle")
             => \/ /\ result' = Ok
                   /\ Len(retval') <= size
                   /\ IsNextBytes(retval', peerStream, rdstart)
                \/ /\ result'.cls \in {"SerialException", "socket.error",
                                       "TypeError", "AttributeError"}
                   /\ retval' = None
          /\ (pc \in ReadPcs /\ CallerStep)
             => UNCHANGED <<sock, fd, isOpen, sstate, live>>
          /\ (cpc = "flag" /\ cpc' = "idle")
             => (sock' = "None" /\ fd' = 0 /\ ~isOpen' /\ live' = {})
       ]_vars

\* a read gathered one byte, close() ran to its end in the second thread,
\* and the read, its wait over, returned that byte
C16_Witness ==
    /\ Idle /\ cpc = "idle"
    /\ op = "read" /\ result = Ok /\ size = 2
    /\ Len(retval) = 1 /\ nrecv = 1 /\ nsel = 2
    /\ sock = "None" /\ ~isOpen

\* C17: read(size) makes at most size passes of its loop: a select either
\* ends the call with what was accumulated (nothing ready) or is followed
\* by one recv; a recv either raises portNotOpenError (nothing received)
\* or adds at least one byte and never more than are missing, and the call
\* returns exactly when size bytes are there; read(size), size <= 0,
\* returns the empty string with no select and no recv.
C17_ReadLoopBounded ==
    /\ [](op = "read" =>
             /\ nsel <= Max(size, 0) /\ nrecv <= nsel
             /\ Len(rd) <= Max(size, 0))
    /\ [][ /\ (pc = "read_select" /\ CallerStep) =>
                 \/ pc' = "idle" /\ result' = Ok /\ retval' = rd
                 \/ pc' = "read_recv" /\ rd' = rd
           /\ (pc = "read_recv" /\ CallerStep) =>
                 \/ pc' = "idle" /\ result' = portNotOpenError
                 \/ /\ Len(rd') > Len(rd) /\ Len(rd') <= size
                    /\ IF Len(rd') = size
                       THEN pc' = "idle" /\ result' = Ok /\ retval' = rd'
                       ELSE pc' = "read_select"
           /\ (pc = "idle" /\ CallerStep /\ op' = "read" /\ sock = "sock"
               /\ size' <= 0) =>
                 (pc' = "idle" /\ result' = Ok /\ retval' = <<>>
                  /\ nsel' = 0 /\ nrecv' = 0)
         ]_vars

\* read(2) returned two bytes after two passes of one byte each
C17_Witness ==
    Idle /\ op = "read" /\ result = Ok /\ size = 2 /\ nsel = 2 /\ nrecv = 2
         /\ Len(retval) = 2

\* C18: a read() or write() that raises after its test of self.sock leaves
\* self.sock, the socket and _isOpen as they were (handle set, state open);
\* an open() called next is rejected as already open; and an open() called
\* after a close() that returned is not rejected.
C18_FailedIoKeepsOpen ==
    [][ /\ (op \in {"read", "write"} /\ pc # "idle" /\ pc' = "idle"
            /\ result' # Ok) =>
              /\ sock = "sock" /\ isOpen /\ sstate = "connected"
              /\ UNCHANGED <<sock, fd, isOpen, sstate, live>>
        /\ (pc = "idle" /\ op \in {"read", "write"} /\ result # Ok
            /\ isOpen /\ CallerStep /\ op' = "open") =>
              /\ pc' = "idle" /\ result'.what = "already open"
              /\ UNCHANGED <<sock, fd, isOpen>>
        /\ (pc = "idle" /\ op = "close" /\ result = Ok /\ port # None
            /\ CallerStep /\ op' = "open") =>
              pc' = "open_socket"
      ]_vars

\* a write failed on a closed peer and the transport is still open
C18_Witness ==
    Idle /\ op = "write" /\ result.errno = "EPIPE" /\ isOpen
         /\ sock = "sock" /\ sstate = "connected"

\* C19: at every point of a write(data), and after it ended in any way, the
\* bytes handed to the socket are the first bytes of data, in order.
C19_WirePrefixOfData ==
    op = "write" =>
        (Len(wire) <= Len(data) /\ wire = SubSeq(data, 1, Len(wire)))

\* a write of two bytes failed after a send that took one byte
C19_Witness ==
    Idle /\ op = "write" /\ result.cls = "socket.error" /\ nsend = 1
         /\ Len(wire) = 1 /\ Len(data) = 2

WritePcs == {"write_pre", "write_send", "write_post", "write_except"}

\* the caller is scheduled: a write in progress takes its next step
WriteStep == WritePre \/ WriteSend \/ WritePost \/ WriteExcept

\* the behaviours of a caller that opens the port, sets the socket
\* non-blocking and writes, against any peer
WriteNext ==
    \/ OpenCall \/ OpenSocket \/ OpenResolve \/ OpenConnect
    \/ OpenExcept \/ OpenRaise \/ OpenDone
    \/ CloseTest \/ CloseShutdown \/ CloseRelease \/ CloseClear
    \/ CloseFlag
    \/ WriteCall \/ WritePre \/ WriteSend \/ WritePost \/ WriteExcept
    \/ Nonblocking
    \/ PeerSend \/ PeerClose

FairWriteSpec == Init /\ [][WriteNext]_vars /\ WF_vars(WriteStep)

\* C20: every write in progress ends (returns or raises); the update after
\* a send leaves fewer bytes unsent, t staying the length of d; the loop is
\* left by a return exactly when t is 0; and write of the empty string
\* returns at once, with no wait and no send.
C20_WriteTerminates ==
    /\ (pc \in WritePcs) ~> (pc = "idle")
    /\ [](pc \in WritePcs => ENABLED WriteStep)
    /\ [][ /\ (pc = "write_post" /\ CallerStep /\ pc' # "write_except") =>
                 /\ t' < t /\ t' >= 0 /\ t' = Len(d')
                 /\ (pc' = "idle") <=> (t' = 0)
                 /\ pc' = "idle" => result' = Ok
                 /\ pc' # "idle" => pc' = "write_pre"
           /\ (pc = "idle" /\ CallerStep /\ op' = "write" /\ sock = "sock"
               /\ data' = <<>>) =>
                 (pc' = "idle" /\ result' = Ok /\ nsend' = 0
                  /\ wire' = <<>> /\ expired' = "no")
         ]_vars

\* a write of two bytes is in its second pass, one byte left
C20_Witness ==
    pc = "write_send" /\ nsend = 1 /\ t = 1 /\ Len(data) = 2

====
